---- MODULE Spec2Model ----
(***************************************************************************)
(* The plugin runtime of bpanel (src/webapp/plugins/plugins.js): the       *)
(* module-level registries, loadPlugins and the operations that read the   *)
(* registries (getConstants, pluginMiddleware, getPanelProps,              *)
(* getRouteProps, decorateReducer, connect, initialMetadata), and the      *)
(* error boundary decorate returns with its getDecorated cache.            *)
(*                                                                         *)
(* A registered function is identified by the package name of the plugin   *)
(* that exports it; what it does when called is looked up in Modules, the  *)
(* content of the localPlugins directory.                                  *)
(***************************************************************************)
EXTENDS Naturals, Sequences, FiniteSets, TLC

VARIABLES
    localPlugins,          \* config.localPlugins as read by the last load
    plugins,               \* let plugins
    connectors,            \* let connectors
    metadata,              \* let metadata = {}
    middlewares,           \* let middlewares
    pluginDecorators,      \* let pluginDecorators = {}
    propsDecorators,       \* let propsDecorators = {} (getPanelProps aliases panelPropsDecorators)
    routePropsDecorators,  \* let routePropsDecorators
    reducersDecorators,    \* let reducersDecorators = {} (aliases chainReducers, nodeReducers)
    extendConstants,       \* let extendConstants = {}
    loaded,                \* how the last loadPlugins() call ended: "never", "done", "threw"
    everProcessed,         \* history: the packages whose map callback any load entered
    decorated,             \* let decorated = {}
    mounted,               \* the instances of the classes decorate() returned
    crashed,               \* history: the mount-point names a render failed at
    built,                 \* history: the registries when the host built its store
    pc,                    \* the caller: "idle", or "returned" from a call
    ret                    \* the last call: operation, arguments, outcome

vars == <<localPlugins, plugins, connectors, metadata, middlewares,
          pluginDecorators, propsDecorators, routePropsDecorators,
          reducersDecorators, extendConstants, loaded, everProcessed,
          decorated, mounted, crashed, built, pc, ret>>

registries == <<localPlugins, plugins, connectors, metadata, middlewares,
                pluginDecorators, propsDecorators, routePropsDecorators,
                reducersDecorators, extendConstants, loaded, everProcessed,
                decorated, mounted, crashed, built>>

(***************************************************************************)
(* Bounds.                                                                 *)
(***************************************************************************)
\* longest config.localPlugins list
MaxConfig == 3
\* longest pluginDecorators[key] list (pluginDecorators is never reset)
MaxPluginDecorators == 2
\* most instances mounted at a time
MaxMounted == 1

(***************************************************************************)
(* JavaScript values.                                                      *)
(***************************************************************************)
Undefined == [t |-> "undefined"]
NonObject == [t |-> "string"]
Obj(m) == [t |-> "object", m |-> m]
Arr(s) == [t |-> "array", v |-> s]
EmptyMap == [k \in {} |-> 0]

IsObject(x) == x.t = "object"

\* obj[k] = v on a map
Put(m, k, v) == [x \in DOMAIN m \cup {k} |-> IF x = k THEN v ELSE m[x]]

\* Object.assign({}, a, b) on maps
Assign(a, b) == [k \in DOMAIN a \cup DOMAIN b |-> IF k \in DOMAIN b THEN b[k] ELSE a[k]]

\* array.push(x)
Push(s, x) == Append(s, x)

\* Op(v) and Op(v, p) with v evaluated once, as a statement sequence does
Let(v, Op(_)) == CHOOSE y \in { Op(x) : x \in {v} } : TRUE
Then(v, Op(_, _), p) == CHOOSE y \in { Op(x, p) : x \in {v} } : TRUE

\* key[0] === '_' for the keys that occur in Modules
InternalKeys == {"_pluginName", "_pluginVersion", "_private"}
IsInternal(key) == key \in InternalKeys

(***************************************************************************)
(* The plugin modules of ../localPlugins/, by package name.  A capability  *)
(* that a module does not export has kind "none".  decorate[name] is the   *)
(* method decorate<name>: "wrap" returns a wrapper of the component,       *)
(* "crash" a wrapper that throws when rendered, "throw" throws.            *)
(***************************************************************************)
NoFn == [kind |-> "none", key |-> "", val |-> 0, src |-> ""]
Fn(kind, key, val, src) == [kind |-> kind, key |-> key, val |-> val, src |-> src]
NoTransform == [kind |-> "none", event |-> "", actionType |-> ""]
NoReducer == [kind |-> "none", key |-> "", val |-> 0, on |-> ""]

NoPlugin ==
    [ meta             |-> [kind |-> "absent", name |-> "undefined", pluginVersion |-> "undefined"],
      middleware       |-> "none",
      mapPanelState    |-> NoFn,
      mapAppState      |-> NoFn,
      mapPanelDispatch |-> NoFn,
      mapAppDispatch   |-> NoFn,
      getRouteProps    |-> <<>>,
      getPanelProps    |-> NoFn,
      reduceChain      |-> NoReducer,
      reduceNode       |-> NoReducer,
      addSocketsConstants |-> NoTransform,
      decoratePlugin   |-> <<>>,
      decorator        |-> "none",
      decorate         |-> [App |-> "none", Panel |-> "none", Footer |-> "none"] ]

Meta(name, version) == [kind |-> "ok", name |-> name, pluginVersion |-> version]

PluginNames == {"base", "child", "multi", "anon", "skin", "tint", "broken"}

Modules ==
    [ p \in PluginNames |->
        CASE p = "base" ->
               [ NoPlugin EXCEPT
                   !.meta = Meta("base", "1.0.0"),
                   !.middleware = "pass",
                   !.mapPanelState = Fn("merge", "a", 1, ""),
                   !.mapAppState = Fn("nonobj", "", 0, ""),
                   !.mapAppDispatch = Fn("merge", "go", 1, ""),
                   !.getRouteProps = << <<"r1", Fn("add", "foo", 1, "")>> >>,
                   !.getPanelProps = Fn("add", "foo", 1, ""),
                   !.reduceChain = [kind |-> "set", key |-> "k", val |-> 1, on |-> "ANY"],
                   !.addSocketsConstants =
                       [kind |-> "append", event |-> "x", actionType |-> "Y"],
                   !.decorator = "ok",
                   !.decorate = [App |-> "wrap", Panel |-> "wrap", Footer |-> "none"] ]
          [] p = "child" ->
               [ NoPlugin EXCEPT
                   !.meta = Meta("child", "0.2.0"),
                   !.middleware = "rewrite",
                   !.mapPanelState = Fn("read", "b", 2, "a"),
                   !.mapAppState = Fn("merge", "c", 3, ""),
                   !.mapPanelDispatch = Fn("merge", "stop", 2, ""),
                   !.getRouteProps = << <<"r1", Fn("read", "bar", 2, "foo")>>,
                                        <<"_private", Fn("add", "p", 9, "")>>,
                                        <<"r2", Fn("parent", "baz", 0, "height")>> >>,
                   !.getPanelProps = Fn("read", "bar", 2, "foo"),
                   !.reduceChain = [kind |-> "set", key |-> "k", val |-> 2, on |-> "SET_CHAIN_TIP"],
                   !.reduceNode = [kind |-> "set", key |-> "n", val |-> 5, on |-> "ANY"],
                   !.addSocketsConstants =
                       [kind |-> "append", event |-> "z", actionType |-> "W"],
                   !.decoratePlugin = <<"base">> ]
          [] p = "multi" ->
               [ NoPlugin EXCEPT
                   !.meta = Meta("multi", "3.1.0"),
                   !.middleware = "drop",
                   !.mapPanelState = Fn("nonobj", "", 0, ""),
                   !.mapAppState = Fn("throw", "", 0, ""),
                   !.mapPanelDispatch = Fn("throw", "", 0, ""),
                   !.getRouteProps = << <<"r2", Fn("add", "foo", 7, "")>> >>,
                   !.getPanelProps = Fn("nonobj", "", 0, ""),
                   !.reduceNode = [kind |-> "set", key |-> "n", val |-> 6, on |-> "ANY"],
                   !.addSocketsConstants =
                       [kind |-> "reset", event |-> "", actionType |-> ""],
                   !.decoratePlugin = <<"base", "anon">> ]
          [] p = "anon" ->
               [ NoPlugin EXCEPT
                   !.middleware = "pass",
                   !.mapPanelState = Fn("throw", "", 0, ""),
                   !.mapAppState = Fn("merge", "d", 4, ""),
                   !.mapPanelDispatch = Fn("nonobj", "", 0, ""),
                   !.mapAppDispatch = Fn("read", "halt", 3, "go"),
                   !.getPanelProps = Fn("throw", "", 0, ""),
                   !.reduceChain = [kind |-> "set", key |-> "tip", val |-> 3, on |-> "ANY"] ]
          [] p = "skin" ->
               [ NoPlugin EXCEPT
                   !.meta = Meta("dark", "2.0.0"),
                   !.reduceNode = [kind |-> "set", key |-> "n", val |-> 8, on |-> "ANY"],
                   !.decorate = [App |-> "wrap", Panel |-> "crash", Footer |-> "none"] ]
          [] p = "tint" ->
               [ NoPlugin EXCEPT
                   !.meta = Meta("tint", "0.1.0"),
                   !.middleware = "pass",
                   !.mapAppState = Fn("merge", "t", 6, ""),
                   !.decoratePlugin = <<"base", "skin">>,
                   !.decorate = [App |-> "throw", Panel |-> "wrap", Footer |-> "none"] ]
          [] OTHER ->
               [ NoPlugin EXCEPT
                   !.meta = [kind |-> "null", name |-> "undefined",
                             pluginVersion |-> "undefined"],
                   !.middleware = "pass",
                   !.mapPanelState = Fn("merge", "e", 5, ""),
                   !.getPanelProps = Fn("add", "baz", 3, "") ] ]

(***************************************************************************)
(* loadPlugins.  R is the module state while the load runs:                *)
(* the registries, plus `name`/`pluginVersion` of the plugin in hand,      *)
(* `result` (what the map callback returns for it) and `threw`.            *)
(***************************************************************************)

\* a reset that clears the metadata map with the other registries
ResetEverything(R) ==
    [ R EXCEPT
        !.connectors = Obj([ App   |-> [state |-> <<>>, dispatch |-> <<>>],
                             Panel |-> [state |-> <<>>, dispatch |-> <<>>] ]),
        !.extendConstants = [sockets |-> <<>>],
        !.propsDecorators = [getPanelProps |-> <<>>],
        !.routePropsDecorators = Obj(EmptyMap),
        !.reducersDecorators = [chainReducer |-> <<>>, nodeReducer |-> <<>>],
        !.middlewares = Arr(<<>>),
        !.metadata = EmptyMap ]

\* a reset that forgets the node reducer list
ResetWithoutNodeReducer(R) ==
    [ R EXCEPT
        !.connectors = Obj([ App   |-> [state |-> <<>>, dispatch |-> <<>>],
                             Panel |-> [state |-> <<>>, dispatch |-> <<>>] ]),
        !.extendConstants = [sockets |-> <<>>],
        !.propsDecorators = [getPanelProps |-> <<>>],
        !.routePropsDecorators = Obj(EmptyMap),
        !.reducersDecorators = [chainReducer |-> <<>>],
        !.middlewares = Arr(<<>>) ]

\* lines 41-66: the registries every load creates afresh
ResetRegistries(R) ==
    [ R EXCEPT
        !.connectors = Obj([ App   |-> [state |-> <<>>, dispatch |-> <<>>],
                             Panel |-> [state |-> <<>>, dispatch |-> <<>>] ]),
        !.extendConstants = [sockets |-> <<>>],
        !.propsDecorators = [getPanelProps |-> <<>>],
        !.routePropsDecorators = Obj(EmptyMap),
        !.reducersDecorators = [chainReducer |-> <<>>, nodeReducer |-> <<>>],
        !.middlewares = Arr(<<>>) ]

\* lines 73-84: plugin.metadata.name throws when metadata is undefined or
\* null; the catch only logs
ReadMetadata(R, pluginName) ==
    LET meta == Modules[pluginName].meta IN
    IF meta.kind \in {"absent", "null"}
      THEN [R EXCEPT !.name = "undefined", !.pluginVersion = "undefined"]
      ELSE [R EXCEPT !.name = meta.name,
                     !.pluginVersion = meta.pluginVersion,
                     !.metadata = Put(R.metadata, pluginName,
                                      [name |-> meta.name,
                                       pluginVersion |-> meta.pluginVersion])]

\* lines 86-91: every own property of the plugin is tagged, the metadata
\* object too; tagging an exported null is a TypeError nothing catches
TagMethods(R, pluginName) ==
    LET meta == Modules[pluginName].meta IN
    IF meta.kind = "null" THEN [R EXCEPT !.threw = TRUE]
    ELSE IF meta.kind = "absent" THEN R
    ELSE [R EXCEPT !.metadata[pluginName] =
                       [name |-> meta.name, pluginVersion |-> meta.pluginVersion,
                        _pluginName |-> R.name, _pluginVersion |-> R.pluginVersion]]

\* the own keys of an object export after tagging, in for-in order
TaggedKeys(keys) ==
    IF keys = <<>> THEN <<>> ELSE keys \o <<"_pluginName", "_pluginVersion">>

\* unshift instead of push: the last plugin's middleware comes first
RegisterMiddlewareFirst(R, pluginName) ==
    IF Modules[pluginName].middleware # "none"
      THEN [R EXCEPT !.middlewares = Arr(<<pluginName>> \o R.middlewares.v)]
      ELSE R

\* lines 93-95
RegisterMiddleware(R, pluginName) ==
    IF Modules[pluginName].middleware # "none"
      THEN [R EXCEPT !.middlewares = Arr(Push(R.middlewares.v, pluginName))]
      ELSE R

\* lines 98-112
RegisterConnectors(R, pluginName) ==
    LET plugin == Modules[pluginName]
        c == R.connectors.m
        ps == IF plugin.mapPanelState.kind # "none"
                THEN Push(c.Panel.state, pluginName) ELSE c.Panel.state
        as == IF plugin.mapAppState.kind # "none"
                THEN Push(c.App.state, pluginName) ELSE c.App.state
        pd == IF plugin.mapPanelDispatch.kind # "none"
                THEN Push(c.Panel.dispatch, pluginName) ELSE c.Panel.dispatch
        ad == IF plugin.mapAppDispatch.kind # "none"
                THEN Push(c.App.dispatch, pluginName) ELSE c.App.dispatch
    IN [R EXCEPT !.connectors = Obj([ App   |-> [state |-> as, dispatch |-> ad],
                                      Panel |-> [state |-> ps, dispatch |-> pd] ])]

\* line 119
SkipRouteKey(key) == IsInternal(key)

\* lines 117-124, from the i-th key on
RECURSIVE RoutePropsLoop(_, _, _, _)
RoutePropsLoop(routes, pluginName, keys, i) ==
    IF i > Len(keys) THEN routes
    ELSE LET key == keys[i] IN
         IF SkipRouteKey(key) THEN RoutePropsLoop(routes, pluginName, keys, i + 1)
         ELSE LET had == IF key \in DOMAIN routes THEN routes[key] ELSE <<>>
              IN Let(Put(routes, key, Push(had, pluginName)),
                     LAMBDA r : RoutePropsLoop(r, pluginName, keys, i + 1))

\* lines 116-125
RegisterRouteProps(R, pluginName) ==
    LET own == Modules[pluginName].getRouteProps
        keys == TaggedKeys([i \in 1..Len(own) |-> own[i][1]])
    IN [R EXCEPT !.routePropsDecorators =
           Obj(RoutePropsLoop(R.routePropsDecorators.m, pluginName, keys, 1))]

\* unshift instead of push
RegisterPanelPropsFirst(R, pluginName) ==
    IF Modules[pluginName].getPanelProps.kind # "none"
      THEN [R EXCEPT !.propsDecorators.getPanelProps = <<pluginName>> \o @]
      ELSE R

\* lines 131-133
RegisterPanelProps(R, pluginName) ==
    IF Modules[pluginName].getPanelProps.kind # "none"
      THEN [R EXCEPT !.propsDecorators.getPanelProps = Push(@, pluginName)]
      ELSE R

\* unshift instead of push
RegisterReducersFirst(R, pluginName) ==
    LET plugin == Modules[pluginName]
        R1 == IF plugin.reduceChain.kind # "none"
                THEN [R EXCEPT !.reducersDecorators.chainReducer = <<pluginName>> \o @]
                ELSE R
    IN IF plugin.reduceNode.kind # "none"
         THEN [R1 EXCEPT !.reducersDecorators.nodeReducer = <<pluginName>> \o @]
         ELSE R1

\* lines 136-142
RegisterReducers(R, pluginName) ==
    LET plugin == Modules[pluginName]
        R1 == IF plugin.reduceChain.kind # "none"
                THEN [R EXCEPT !.reducersDecorators.chainReducer = Push(@, pluginName)]
                ELSE R
    IN IF plugin.reduceNode.kind # "none"
         THEN [R1 EXCEPT !.reducersDecorators.nodeReducer = Push(@, pluginName)]
         ELSE R1

\* lines 145-147
RegisterConstants(R, pluginName) ==
    IF Modules[pluginName].addSocketsConstants.kind # "none"
      THEN [R EXCEPT !.extendConstants.sockets = Push(@, pluginName)]
      ELSE R

\* the dependency check left out
MissingDependencyNever(R, key) == FALSE

\* line 155: !metadata[key]
MissingDependency(R, key) == key \notin DOMAIN R.metadata

\* lines 152-167, from the i-th key on: a missing dependency returns
\* undefined from the map callback, what was pushed before stays pushed
RECURSIVE DecoratePluginLoop(_, _, _, _)
DecoratePluginLoop(R, pluginName, keys, i) ==
    IF i > Len(keys) THEN R
    ELSE LET key == keys[i] IN
         IF IsInternal(key) THEN DecoratePluginLoop(R, pluginName, keys, i + 1)
         ELSE IF MissingDependency(R, key) THEN [R EXCEPT !.result = "undefined"]
         ELSE LET had == IF key \in DOMAIN R.pluginDecorators
                           THEN R.pluginDecorators[key] ELSE <<>>
              IN Let([R EXCEPT !.pluginDecorators =
                                  Put(R.pluginDecorators, key, Push(had, pluginName))],
                     LAMBDA R1 : DecoratePluginLoop(R1, pluginName, keys, i + 1))

\* lines 150-170
RegisterPluginDecorators(R, pluginName) ==
    Let([R EXCEPT !.result = pluginName],
        LAMBDA R1 : DecoratePluginLoop(R1, pluginName,
                        TaggedKeys(Modules[pluginName].decoratePlugin), 1))

\* lines 93-170: what the callback does once the plugin is tagged
RegisterAll(R, pluginName) ==
    Then(Then(Then(Then(Then(Then(Then(R,
        RegisterMiddleware, pluginName),
        RegisterConnectors, pluginName),
        RegisterRouteProps, pluginName),
        RegisterPanelProps, pluginName),
        RegisterReducers, pluginName),
        RegisterConstants, pluginName),
        RegisterPluginDecorators, pluginName)

\* lines 71-171: the map callback for one configured name
LoadOne(R, pluginName) ==
    Let(Then(Then(R, ReadMetadata, pluginName), TagMethods, pluginName),
        LAMBDA R1 :
          IF R1.threw THEN R1
          ELSE Let(RegisterAll(R1, pluginName),
                   LAMBDA R2 : [R2 EXCEPT !.mapped = Append(@, R2.result)]))

\* lines 70-71: config.localPlugins.map, in order, until a callback throws
RECURSIVE MapPlugins(_, _, _)
MapPlugins(R, cfg, i) ==
    IF i > Len(cfg) \/ R.threw THEN R
    ELSE Let(LoadOne(R, cfg[i]), LAMBDA R1 : MapPlugins(R1, cfg, i + 1))

\* the filter left out: the undefined of a dropped plugin stays in the list
FilterNothing(mapped) == mapped

\* line 172: .filter(plugin => Boolean(plugin))
FilterLoaded(mapped) == SelectSeq(mapped, LAMBDA x : x # "undefined")

\* lines 37-173: the module state after loadPlugins() with config.localPlugins = cfg
loadPlugins(R, cfg) ==
    Let(ResetRegistries([R EXCEPT !.mapped = <<>>, !.threw = FALSE]),
        LAMBDA R0 :
          Let(MapPlugins(R0, cfg, 1),
              LAMBDA R1 : IF R1.threw THEN R1
                          ELSE [R1 EXCEPT !.plugins = Arr(FilterLoaded(R1.mapped))]))

(***************************************************************************)
(* Calling plugin functions.  A call returns a JavaScript value or throws. *)
(***************************************************************************)
Thrown == [t |-> "throw"]

\* obj[k] || 0
Read(m, k) == IF k \in DOMAIN m THEN m[k] ELSE 0

\* a mapper or props decorator called with (first, acc): `first` is the
\* store state, the dispatch function's props or parentProps (a map)
\*   merge   Object.assign({}, acc, {[key]: val})
\*   add     {[key]: val}
\*   read    Object.assign({}, acc, {[key]: (acc[src] || 0) + val})
\*   parent  {[key]: first[src] || 0}
\*   throw   throws; nonobj returns a string
Call(fn, first, acc) ==
    CASE fn.kind = "merge" ->
           Obj(Assign(IF IsObject(acc) THEN acc.m ELSE EmptyMap, Put(EmptyMap, fn.key, fn.val)))
      [] fn.kind = "add" -> Obj(Put(EmptyMap, fn.key, fn.val))
      [] fn.kind = "read" ->
           IF IsObject(acc)
             THEN Obj(Put(acc.m, fn.key, Read(acc.m, fn.src) + fn.val))
             ELSE Thrown
      [] fn.kind = "parent" -> Obj(Put(EmptyMap, fn.key, Read(first, fn.src)))
      [] fn.kind = "throw" -> Thrown
      [] OTHER -> NonObject

(***************************************************************************)
(* getConstants                                                            *)
(***************************************************************************)
\* src/unnamed/part_000: the sockets namespace of the constants registry
DefaultListener == [event |-> "new block", actionType |-> "SET_CHAIN_TIP"]
constants ==
    [ sockets |-> [ CONNECT_SOCKET |-> "CONNECT_SOCKET",
                    DISCONNECT_SOCKET |-> "DISCONNECT_SOCKET",
                    listeners |-> <<DefaultListener>> ] ]

\* plugin.addSocketsConstants(acc): append returns the namespace with one
\* more listener, reset returns it with no listener
AddSocketsConstants(pluginName, acc) ==
    LET t == Modules[pluginName].addSocketsConstants IN
    IF t.kind = "append"
      THEN [acc EXCEPT !.listeners =
               Append(@, [event |-> t.event, actionType |-> t.actionType])]
      ELSE [acc EXCEPT !.listeners = <<>>]

\* line 176-179: Array.prototype.reduce over the transforms, from the i-th on
RECURSIVE ReduceConstants(_, _, _)
ReduceConstants(fns, acc, i) ==
    IF i > Len(fns) THEN acc
    ELSE Let(AddSocketsConstants(fns[i], acc),
             LAMBDA a : ReduceConstants(fns, a, i + 1))

\* lines 175-180; extendConstants[name] undefined is a TypeError
getConstants(name) ==
    IF name \notin DOMAIN extendConstants
      THEN [threw |-> TRUE, value |-> constants.sockets]
      ELSE [threw |-> FALSE,
            value |-> ReduceConstants(extendConstants[name], constants[name], 1)]

(***************************************************************************)
(* pluginMiddleware                                                        *)
(***************************************************************************)
\* what a rewriting middleware hands to its next
Rewrite(action) == [action EXCEPT !.type = "REWRITTEN"]

\* lines 185-188: nextMiddleware(remaining)(action_), as the calls it makes,
\* in order: a middleware entered with an action, or the underlying next
RECURSIVE nextMiddleware(_, _)
nextMiddleware(remaining, action) ==
    IF Len(remaining) > 0
      THEN LET kind == Modules[remaining[1]].middleware IN
           << [fn |-> remaining[1], action |-> action] >> \o
             ( CASE kind = "pass" -> nextMiddleware(Tail(remaining), action)
                 [] kind = "rewrite" -> nextMiddleware(Tail(remaining), Rewrite(action))
                 [] OTHER -> <<>> )
      ELSE << [fn |-> "next", action |-> action] >>

\* lines 184-190; middlewares undefined is a TypeError on remaining.length
pluginMiddleware(action) ==
    IF middlewares = Undefined
      THEN [threw |-> TRUE, calls |-> <<>>]
      ELSE [threw |-> FALSE, calls |-> nextMiddleware(middlewares.v, action)]

(***************************************************************************)
(* getPanelProps, getRouteProps                                            *)
(***************************************************************************)
\* ./utils propsReducerCallback(name, parentProps, ...fnArgs): the fold step
\* (acc, decorator) => acc merged with decorator(parentProps, acc, ...fnArgs),
\* or acc unchanged when the decorator throws or returns a non-object
propsReducerCallback(fn, parentProps, acc) ==
    LET out == Call(fn, parentProps, Obj(acc)) IN
    IF IsObject(out) THEN Assign(acc, out.m) ELSE acc

\* the decorator a plugin registered for the panel or for a route
PropsDecorator(pluginName, name) ==
    IF name = "getPanelProps" THEN Modules[pluginName].getPanelProps
    ELSE LET own == Modules[pluginName].getRouteProps
             i == CHOOSE i \in 1..Len(own) : own[i][1] = name
         IN own[i][2]

\* Array.prototype.reduce over the decorators, from the i-th on
RECURSIVE ReduceProps(_, _, _, _, _)
ReduceProps(fns, name, parentProps, acc, i) ==
    IF i > Len(fns) THEN acc
    ELSE Let(propsReducerCallback(PropsDecorator(fns[i], name), parentProps, acc),
             LAMBDA a : ReduceProps(fns, name, parentProps, a, i + 1))

\* lines 198-202; props = {} when undefined, Object.assign({}, props)
getProps(name, parentProps, props) ==
    IF name \notin DOMAIN propsDecorators
      THEN [threw |-> TRUE, value |-> EmptyMap]
      ELSE [threw |-> FALSE,
            value |-> ReduceProps(propsDecorators[name], name, parentProps,
                                  IF IsObject(props) THEN props.m ELSE EmptyMap, 1)]

\* lines 204-206
getPanelProps(parentProps, props) == getProps("getPanelProps", parentProps, props)

\* lines 208-214; routePropsDecorators undefined is a TypeError
getRouteProps(name, parentProps, props) ==
    IF routePropsDecorators = Undefined
      THEN [threw |-> TRUE, value |-> EmptyMap]
    ELSE IF name \notin DOMAIN routePropsDecorators.m
      THEN [threw |-> FALSE, value |-> parentProps]
    ELSE [threw |-> FALSE,
          value |-> ReduceProps(routePropsDecorators.m[name], name, parentProps,
                                IF IsObject(props) THEN props.m ELSE EmptyMap, 1)]

(***************************************************************************)
(* decorateReducer                                                         *)
(***************************************************************************)
\* seamless-immutable: the same content, frozen
Immutable(m) == [t |-> "immutable", m |-> m]

\* the base reducers of the host: keep returns the state, tip sets k on
\* SET_CHAIN_TIP, init returns a default state
Reducers == {"keep", "tip"}
Reduce(reducer, state, action) ==
    IF reducer = "tip" /\ action.type = "SET_CHAIN_TIP"
      THEN Put(state, "k", 9)
      ELSE state

\* plugin.reduceChain / plugin.reduceNode called with (state_, action):
\* state_.set(key, val) for the action type it handles
ReducerDecorator(pluginName, name) ==
    IF name = "chainReducer" THEN Modules[pluginName].reduceChain
                             ELSE Modules[pluginName].reduceNode

CallReducer(pluginName, name, state_, action) ==
    LET d == ReducerDecorator(pluginName, name) IN
    IF d.on \in {"ANY", action.type}
      THEN [state_ EXCEPT !.m = Put(@, d.key, d.val)]
      ELSE state_

\* lines 218-219: Array.prototype.reduce over the decorators, from the i-th on
RECURSIVE ReduceReducers(_, _, _, _, _)
ReduceReducers(fns, name, state_, action, i) ==
    IF i > Len(fns) THEN state_
    ELSE Let(CallReducer(fns[i], name, state_, action),
             LAMBDA st : ReduceReducers(fns, name, st, action, i + 1))

\* a reducer that keeps the decorators registered when it was created
decorateReducerWhenBuilt(reducer, name, state, action) ==
    IF name \notin DOMAIN built.reducersDecorators
      THEN [threw |-> TRUE, value |-> Immutable(EmptyMap)]
      ELSE [threw |-> FALSE,
            value |-> ReduceReducers(built.reducersDecorators[name], name,
                                     Immutable(Reduce(reducer, state, action)),
                                     action, 1)]

\* lines 217-220; reducersDecorators[name] undefined is a TypeError
decorateReducer(reducer, name, state, action) ==
    IF name \notin DOMAIN reducersDecorators
      THEN [threw |-> TRUE, value |-> Immutable(EmptyMap)]
      ELSE [threw |-> FALSE,
            value |-> ReduceReducers(reducersDecorators[name], name,
                                     Immutable(Reduce(reducer, state, action)),
                                     action, 1)]

(***************************************************************************)
(* connect: the two functions handed to reduxConnect                       *)
(***************************************************************************)
\* the mapper a plugin registered for a mount point
Mapper(pluginName, name, which) ==
    LET plugin == Modules[pluginName] IN
    CASE name = "Panel" /\ which = "state" -> plugin.mapPanelState
      [] name = "Panel" /\ which = "dispatch" -> plugin.mapPanelDispatch
      [] name = "App" /\ which = "state" -> plugin.mapAppState
      [] OTHER -> plugin.mapAppDispatch

\* the catch leaves ret unset: a throwing mapper yields undefined
TryMapperUnset(fn, first, acc) ==
    LET out == Call(fn, first, acc) IN
    IF out = Thrown THEN Undefined ELSE out

\* lines 239-249 and 262-272: let ret = acc; try { ret = mapper(first, acc) }
\* catch (err) { console.error(...) }
TryMapper(fn, first, acc) ==
    LET out == Call(fn, first, acc) IN
    IF out = Thrown THEN acc ELSE out

\* lines 250-258 and 273-282: a ret that is not an object makes the
\* callback return undefined
CheckReturn(r) == IF ~IsObject(r) THEN Undefined ELSE r

\* lines 238-258 and 261-282: the reduce callback
MapperStep(fn, first, acc) == CheckReturn(TryMapper(fn, first, acc))

\* Array.prototype.reduce over the mappers, from the i-th on, as the
\* sequence of accumulators: accs[1] is the initial value, accs[i + 1] the
\* value the i-th callback returned
RECURSIVE ReduceMappers(_, _, _, _, _, _)
ReduceMappers(fns, name, which, first, accs, i) ==
    IF i > Len(fns) THEN accs
    ELSE Let(Append(accs, MapperStep(Mapper(fns[i], name, which), first, accs[i])),
             LAMBDA a : ReduceMappers(fns, name, which, first, a, i + 1))

\* lines 237-259 (which = "state") and 260-283 (which = "dispatch") for the
\* component connect(stateFn, dispatchFn)(Class, name); `initial` is
\* stateFn(state) or dispatchFn(dispatch); connectors[name] undefined is a
\* TypeError
Derive(name, which, first, initial) ==
    IF connectors = Undefined \/ name \notin DOMAIN connectors.m
      THEN [threw |-> TRUE, accs |-> <<initial>>]
      ELSE [threw |-> FALSE,
            accs |-> ReduceMappers(connectors.m[name][which], name, which,
                                   first, <<initial>>, 1)]

(***************************************************************************)
(* decorate, getDecorated, exposeDecorated.  A component is the host class *)
(* `of` and the wrappers around it, innermost first.                       *)
(***************************************************************************)
\* the host's own class, as passed to decorate and to connect
Class(Component_) == [of |-> Component_, wrappers |-> <<>>]

\* lines 293-322: the wrapper that hands the instance to props.onDecorated
exposeDecorated(Component_) ==
    [ of |-> Component_,
      wrappers |-> << [by |-> "exposeDecorated", kind |-> "wrap",
                       displayName |-> <<"DecoratedComponent", "">>] >> ]

\* lines 331 and 353: component.displayName = ...
SetDisplayName(component, displayName) ==
    [component EXCEPT !.wrappers[Len(component.wrappers)].displayName = displayName]

\* lines 88 and 339: decorator._pluginName is the name the load read from
\* the metadata of the package, undefined when it could not
PluginNameTag(pkg) ==
    IF Modules[pkg].meta.kind = "ok" THEN Modules[pkg].meta.name ELSE "undefined"

\* line 352: decorator(component_, {React, PropTypes}) of a package that
\* returns a wrapper
Decorator(component_, pkg, name) ==
    [component_ EXCEPT !.wrappers =
        Append(@, [by |-> pkg, kind |-> Modules[pkg].decorate[name],
                   displayName |-> <<"", "">>])]

\* lines 343-351: the decorators registered for the plugin are handed to
\* its own decorator function, which must exist
HandDecorators(pkg, calls) ==
    LET pluginName == PluginNameTag(pkg) IN
    IF pluginName \notin DOMAIN pluginDecorators
      THEN [threw |-> FALSE, calls |-> calls]
    ELSE IF Modules[pkg].decorator = "none"
      THEN [threw |-> TRUE, calls |-> calls]
    ELSE [threw |-> FALSE,
          calls |-> calls \o
            [ i \in 1..Len(pluginDecorators[pluginName]) |->
                [fn |-> "decorator", plugin |-> pkg,
                 arg |-> pluginDecorators[pluginName][i]] ]]

\* lines 334-363: the forEach callback for one loaded plugin; the catch
\* logs and returns, component_ stays what it was
DecorateWith(G, pkg, name) ==
    LET kind == Modules[pkg].decorate[name] IN
    IF kind = "none" THEN G
    ELSE LET H == HandDecorators(pkg, G.calls) IN
         IF H.threw THEN [G EXCEPT !.calls = H.calls]
         ELSE LET calls == Append(H.calls, [fn |-> "decorate", plugin |-> pkg, arg |-> name])
              IN IF kind = "throw" THEN [G EXCEPT !.calls = calls]
                 ELSE [G EXCEPT !.calls = calls,
                                !.component_ =
                                    SetDisplayName(Decorator(G.component_, pkg, name),
                                                   <<PluginNameTag(pkg), name>>)]

\* line 334: plugins.forEach, from the i-th plugin on
RECURSIVE DecorateEach(_, _, _, _)
DecorateEach(G, list, name, i) ==
    IF i > Len(list) THEN G
    ELSE Let(DecorateWith(G, list[i], name),
             LAMBDA G1 : DecorateEach(G1, list, name, i + 1))

\* lines 330-365: the chain built when the cache has no entry; plugins
\* undefined is a TypeError, thrown before the cache is written
BuildDecorated(Component, name) ==
    IF plugins = Undefined
      THEN [threw |-> TRUE, value |-> Class(Component), decorated |-> decorated,
            calls |-> <<>>]
      ELSE Let(DecorateEach(
                 [ component_ |-> SetDisplayName(exposeDecorated(Component),
                                                 <<"exposeDecorated", name>>),
                   calls |-> <<>> ],
                 plugins.v, name, 1),
               LAMBDA G : [threw |-> FALSE, value |-> G.component_,
                           decorated |-> Put(decorated, name, G.component_),
                           calls |-> G.calls])

\* a cache that is never consulted
InCacheNever(name) == FALSE

\* line 329: decorated[name] is truthy
InCache(name) == name \in DOMAIN decorated

\* lines 327-368: the component, the cache after the call and the plugin
\* functions called, in order
getDecorated(Component, name) ==
    IF InCache(name)
      THEN [threw |-> FALSE, value |-> decorated[name], decorated |-> decorated,
            calls |-> <<>>]
      ELSE BuildDecorated(Component, name)

\* lines 378-381: a new instance of the class decorate(Component_, name)
\* returned
DecoratedComponent(Component_, name) ==
    [Component_ |-> Component_, name |-> name, hasError |-> FALSE]

\* lines 383-391
componentDidCatch(b) == [b EXCEPT !.hasError = TRUE]

\* a render that ignores this.state.hasError
renderDecoratedAlways(b) ==
    LET G == getDecorated(b.Component_, b.name)
    IN [threw |-> G.threw, Sub |-> G.value, decorated |-> G.decorated,
        calls |-> G.calls, got |-> TRUE]

\* lines 393-398: Sub, and whether getDecorated was called for it
render(b) ==
    IF b.hasError
      THEN [threw |-> FALSE, Sub |-> Class(b.Component_), decorated |-> decorated,
            calls |-> <<>>, got |-> FALSE]
      ELSE LET G == getDecorated(b.Component_, b.name)
           IN [threw |-> G.threw, Sub |-> G.value, decorated |-> G.decorated,
               calls |-> G.calls, got |-> TRUE]

\* React renders the element of Sub: a wrapper that throws when rendered
\* fails the render below the instance, and React calls componentDidCatch
Crashes(Sub) == \E i \in 1..Len(Sub.wrappers) : Sub.wrappers[i].kind = "crash"

(***************************************************************************)
(* The state machine.                                                      *)
(***************************************************************************)

\* the lists of distinct package names, at most MaxConfig long, over `names`
ConfigsOver(names) ==
    UNION { { c \in [1..n -> names] :
                \A i, j \in 1..n : c[i] = c[j] => i = j } : n \in 0..MaxConfig }

\* the packages config.localPlugins names: those whose load returns
Installed == {"base", "child", "multi", "anon"}
Configs == ConfigsOver(Installed)

\* the module state as loadPlugins reads and writes it
ModuleState ==
    [ plugins |-> plugins, connectors |-> connectors, metadata |-> metadata,
      middlewares |-> middlewares, pluginDecorators |-> pluginDecorators,
      propsDecorators |-> propsDecorators,
      routePropsDecorators |-> routePropsDecorators,
      reducersDecorators |-> reducersDecorators,
      extendConstants |-> extendConstants,
      name |-> "undefined", pluginVersion |-> "undefined",
      result |-> "undefined", mapped |-> <<>>, threw |-> FALSE ]

NoCall == [op |-> "none"]

\* lines 12-34: the module-level declarations
Init ==
    /\ localPlugins = <<>>
    /\ plugins = Undefined
    /\ connectors = Undefined
    /\ metadata = EmptyMap
    /\ middlewares = Undefined
    /\ pluginDecorators = EmptyMap
    /\ propsDecorators = EmptyMap
    /\ routePropsDecorators = Undefined
    /\ reducersDecorators = EmptyMap
    /\ extendConstants = EmptyMap
    /\ loaded = "never"
    /\ everProcessed = {}
    /\ decorated = EmptyMap
    /\ mounted = <<>>
    /\ crashed = {}
    /\ built = Undefined
    /\ pc = "idle"
    /\ ret = NoCall

\* the packages of cfg the map reaches: all up to the first whose tagging throws
Entered(cfg) ==
    { cfg[i] : i \in { i \in 1..Len(cfg) :
                         \A j \in 1..(i - 1) : Modules[cfg[j]].meta.kind # "null" } }

\* loadPlugins() with config.localPlugins one of `configs`; with `history`
\* the call is recorded with the state it started from
Load(configs, history) ==
    /\ pc = "idle"
    /\ \E cfg \in configs :
      \E R \in {loadPlugins(ModuleState, cfg)} :
        /\ \A key \in DOMAIN R.pluginDecorators :
               Len(R.pluginDecorators[key]) <= MaxPluginDecorators
        /\ localPlugins' = cfg
        /\ plugins' = R.plugins
        /\ connectors' = R.connectors
        /\ metadata' = R.metadata
        /\ middlewares' = R.middlewares
        /\ pluginDecorators' = R.pluginDecorators
        /\ propsDecorators' = R.propsDecorators
        /\ routePropsDecorators' = R.routePropsDecorators
        /\ reducersDecorators' = R.reducersDecorators
        /\ extendConstants' = R.extendConstants
        /\ loaded' = IF R.threw THEN "threw" ELSE "done"
        /\ everProcessed' = everProcessed \cup Entered(cfg)
        /\ UNCHANGED <<decorated, mounted, crashed, built>>
        /\ pc' = "returned"
        /\ ret' = IF history
                     THEN [op |-> "loadPlugins", threw |-> R.threw,
                           metadataBefore |-> metadata,
                           configBefore |-> localPlugins,
                           loadedBefore |-> loaded,
                           processedBefore |-> everProcessed]
                     ELSE [op |-> "loadPlugins", threw |-> R.threw]

\* loadPlugins() with config.localPlugins = cfg
LoadPlugins == Load(Configs, TRUE)

\* line 402
InitialMetadata ==
    /\ pc = "idle"
    /\ pc' = "returned"
    /\ ret' = [op |-> "initialMetadata", value |-> metadata]
    /\ UNCHANGED registries

\* the arguments the host calls with
Actions == { [type |-> "SET_CHAIN_TIP"], [type |-> "OTHER"] }
States == { EmptyMap, [k |-> 7, n |-> 7] }
PropsArgs == { Undefined, Obj([foo |-> 5]) }
ParentProps == { EmptyMap, [height |-> 10] }
InitialProps == { Obj(EmptyMap), Obj([s |-> 1]) }
MountPoints == {"App", "Panel", "Footer"}
RouteNames == {"r1", "r2", "r3", "_private", "_pluginName"}
Namespaces == {"sockets", "chain"}
ReducerNames == {"chainReducer", "nodeReducer", "themeReducer"}

\* getConstants(name)
GetConstants ==
    \E name \in Namespaces :
      /\ pc = "idle"
      /\ pc' = "returned"
      /\ ret' = [op |-> "getConstants", name |-> name, out |-> getConstants(name)]
      /\ UNCHANGED registries

\* pluginMiddleware(store)(next)(action)
Dispatch ==
    \E action \in Actions :
      /\ pc = "idle"
      /\ pc' = "returned"
      /\ ret' = [op |-> "pluginMiddleware", action |-> action,
                 out |-> pluginMiddleware(action)]
      /\ UNCHANGED registries

\* getPanelProps(parentProps, props)
GetPanelProps ==
    \E parentProps \in ParentProps, props \in PropsArgs :
      /\ pc = "idle"
      /\ pc' = "returned"
      /\ ret' = [op |-> "getPanelProps", parentProps |-> parentProps,
                 props |-> props, out |-> getPanelProps(parentProps, props)]
      /\ UNCHANGED registries

\* getRouteProps(name, parentProps, props)
GetRouteProps ==
    \E name \in RouteNames, parentProps \in ParentProps, props \in PropsArgs :
      /\ pc = "idle"
      /\ pc' = "returned"
      /\ ret' = [op |-> "getRouteProps", name |-> name, parentProps |-> parentProps,
                 props |-> props, out |-> getRouteProps(name, parentProps, props)]
      /\ UNCHANGED registries

\* decorateReducer(reducer, name)(state, action)
DecoratedReducer ==
    \E reducer \in Reducers, name \in ReducerNames, state \in States,
       action \in Actions :
      /\ pc = "idle"
      /\ pc' = "returned"
      /\ ret' = [op |-> "decorateReducer", reducer |-> reducer, name |-> name,
                 state |-> state, action |-> action,
                 out |-> decorateReducer(reducer, name, state, action)]
      /\ UNCHANGED registries

\* a state or dispatch recomputation of the component
\* connect(stateFn, dispatchFn)(Class, name)
Connect ==
    \E name \in MountPoints, which \in {"state", "dispatch"},
       first \in ParentProps, initial \in InitialProps :
      /\ pc = "idle"
      /\ pc' = "returned"
      /\ ret' = [op |-> "connect", name |-> name, which |-> which,
                 first |-> first, initial |-> initial,
                 out |-> Derive(name, which, first, initial)]
      /\ UNCHANGED registries

\* the host classes and the mount-point names they are decorated under
Components == {"View", "OtherView"}
MountNames == {"App", "Panel"}

\* React mounts an element of the class decorate(Component_, name) returned
Mount(components, names) ==
    \E Component_ \in components, name \in names :
      /\ pc = "idle"
      /\ Len(mounted) < MaxMounted
      /\ mounted' = Append(mounted, DecoratedComponent(Component_, name))
      /\ pc' = "returned"
      /\ ret' = [op |-> "mount", instance |-> Len(mounted) + 1]
      /\ UNCHANGED <<localPlugins, plugins, connectors, metadata, middlewares,
                     pluginDecorators, propsDecorators, routePropsDecorators,
                     reducersDecorators, extendConstants, loaded, everProcessed,
                     decorated, crashed, built>>

\* React unmounts the i-th instance; its state is discarded
Unmount ==
    /\ pc = "idle"
    /\ \E i \in 1..Len(mounted) :
        /\ mounted' = SubSeq(mounted, 1, i - 1) \o SubSeq(mounted, i + 1, Len(mounted))
        /\ pc' = "returned"
        /\ ret' = [op |-> "unmount", instance |-> i]
    /\ UNCHANGED <<localPlugins, plugins, connectors, metadata, middlewares,
                   pluginDecorators, propsDecorators, routePropsDecorators,
                   reducersDecorators, extendConstants, loaded, everProcessed,
                   decorated, crashed, built>>

\* what a call of render() on the instance b did
Rendered(b, r) == [hasError |-> b.hasError, got |-> r.got, Sub |-> r.Sub]

\* React renders the i-th mounted instance: render(), then the element of
\* Sub; when that fails below the instance, componentDidCatch and, for the
\* new state, render() again
Render ==
    /\ pc = "idle"
    /\ \E i \in 1..Len(mounted) :
      \E r \in {render(mounted[i])} :
        LET b == mounted[i]
            caught == ~r.threw /\ Crashes(r.Sub)
        IN /\ decorated' = r.decorated
           /\ mounted' = IF caught THEN [mounted EXCEPT ![i] = componentDidCatch(b)]
                                   ELSE mounted
           /\ crashed' = IF caught THEN crashed \cup {b.name} ELSE crashed
           /\ pc' = "returned"
           /\ ret' = [op |-> "render", instance |-> i, boundary |-> b,
                      threw |-> r.threw, calls |-> r.calls, caught |-> caught,
                      renders |-> IF caught
                                    THEN << Rendered(b, r),
                                            Rendered(componentDidCatch(b),
                                                     render(componentDidCatch(b))) >>
                                    ELSE << Rendered(b, r) >>,
                      cachedBefore |-> decorated, crashedBefore |-> crashed]
           /\ UNCHANGED <<localPlugins, plugins, connectors, metadata, middlewares,
                          pluginDecorators, propsDecorators, routePropsDecorators,
                          reducersDecorators, extendConstants, loaded, everProcessed,
                          built>>

\* the caller goes on
Return ==
    /\ pc = "returned"
    /\ pc' = "idle"
    /\ ret' = NoCall
    /\ UNCHANGED registries

Next ==
    \/ LoadPlugins
    \/ InitialMetadata
    \/ GetConstants
    \/ Dispatch
    \/ GetPanelProps
    \/ GetRouteProps
    \/ DecoratedReducer
    \/ Connect
    \/ Return

Spec == Init /\ [][Next]_vars

\* the packages configured where components are rendered
Themed == {"base", "skin"}

\* loadPlugins() with a configuration of these
LoadThemed == Load(ConfigsOver(Themed), FALSE)

\* an element of any decorated class is mounted
MountAny == Mount(Components, MountNames)

RenderNext ==
    \/ LoadThemed
    \/ MountAny
    \/ Render
    \/ Unmount
    \/ Return

RenderSpec == Init /\ [][RenderNext]_vars

\* the packages configured where plugins decorate one another
Dependent == {"base", "skin", "tint"}

\* loadPlugins() with a configuration of these
LoadDependent == Load(ConfigsOver(Dependent), FALSE)

\* an element of the decorated class of the host's view is mounted
MountView == Mount({"View"}, MountNames)

DecorateNext ==
    \/ LoadDependent
    \/ MountView
    \/ Render
    \/ Unmount
    \/ Return

DecorateSpec == Init /\ [][DecorateNext]_vars

\* the packages configured where one exports malformed metadata
Malformed == {"base", "anon", "broken"}

\* loadPlugins() with a configuration of these
LoadMalformed == Load(ConfigsOver(Malformed), TRUE)

FaultyNext ==
    \/ LoadMalformed
    \/ InitialMetadata
    \/ Dispatch
    \/ GetPanelProps
    \/ Return

FaultySpec == Init /\ [][FaultyNext]_vars

\* the packages configured where the host reloads
Reloaded == {"base", "child"}

\* loadPlugins() with a configuration of these
LoadReloaded == Load(ConfigsOver(Reloaded), FALSE)

\* the host creates its functions: decorateReducer(reducer, name),
\* connect(stateFn, dispatchFn)(Class, name), pluginMiddleware(store)(next).
\* None of them reads a registry; `built` records what the registries were
Build ==
    /\ pc = "idle"
    /\ built = Undefined
    /\ built' = [ connectors |-> connectors, middlewares |-> middlewares,
                  propsDecorators |-> propsDecorators,
                  routePropsDecorators |-> routePropsDecorators,
                  reducersDecorators |-> reducersDecorators,
                  extendConstants |-> extendConstants ]
    /\ pc' = "returned"
    /\ ret' = [op |-> "build"]
    /\ UNCHANGED <<localPlugins, plugins, connectors, metadata, middlewares,
                   pluginDecorators, propsDecorators, routePropsDecorators,
                   reducersDecorators, extendConstants, loaded, everProcessed,
                   decorated, mounted, crashed>>

\* a call of one of the functions the host created
Invoke ==
    /\ built # Undefined
    /\ \/ GetConstants
       \/ Dispatch
       \/ GetPanelProps
       \/ GetRouteProps
       \/ DecoratedReducer
       \/ Connect

\* an element of the decorated class of the host's App is mounted
MountApp == Mount({"View"}, {"App"})

ReloadNext ==
    \/ LoadReloaded
    \/ Build
    \/ Invoke
    \/ MountApp
    \/ Render
    \/ Unmount
    \/ Return

ReloadSpec == Init /\ [][ReloadNext]_vars

(***************************************************************************)
(* Properties.                                                             *)
(***************************************************************************)
Range(seq) == { seq[i] : i \in 1..Len(seq) }

\* the position of a package in the configuration of the last load
Position(pluginName) == CHOOSE i \in 1..Len(localPlugins) : localPlugins[i] = pluginName

\* seq lists exactly the packages of `set`, once each, in configuration order
InConfigOrder(seq, set) ==
    /\ Range(seq) = set
    /\ Len(seq) = Cardinality(set)
    /\ \A a, b \in 1..Len(seq) : a < b => Position(seq[a]) < Position(seq[b])

\* the packages with a metadata entry when the i-th configured plugin is
\* processed: those of earlier loads, and those read so far in this load
MetadataWhenProcessed(i) ==
    DOMAIN ret.metadataBefore \cup
      { localPlugins[j] : j \in { j \in 1..i : Modules[localPlugins[j]].meta.kind = "ok" } }

\* the i-th configured plugin has a decoratePlugin target key, not an
\* internal one, without metadata entry when it is processed
LacksDependency(i) ==
    \E key \in Range(Modules[localPlugins[i]].decoratePlugin) :
        ~IsInternal(key) /\ key \notin MetadataWhenProcessed(i)

\* the configured plugins the last load dropped
Dropped == Range(localPlugins) \ Range(plugins.v)

\* C1: loadPlugins() does not throw for a missing dependency; the loaded
\* list holds, in configuration order, exactly the configured plugins that
\* have no decoratePlugin target key (underscore keys apart) lacking a
\* metadata entry at the time they are processed.
C1_DependentPluginsDropped ==
    ret.op = "loadPlugins" =>
        /\ ~ret.threw
        /\ plugins.t = "array"
        /\ InConfigOrder(plugins.v,
             { localPlugins[i] : i \in { i \in 1..Len(localPlugins) : ~LacksDependency(i) } })

\* a load of three plugins that dropped the second and kept the others
C1_Witness ==
    /\ ret.op = "loadPlugins"
    /\ Len(localPlugins) = 3
    /\ LacksDependency(2)
    /\ plugins.v = <<localPlugins[1], localPlugins[3]>>

\* the function a package exports is in some registry
Registered(pluginName) ==
    \/ pluginName \in Range(middlewares.v)
    \/ \E name \in DOMAIN connectors.m, which \in {"state", "dispatch"} :
           pluginName \in Range(connectors.m[name][which])
    \/ pluginName \in Range(propsDecorators.getPanelProps)
    \/ \E key \in DOMAIN routePropsDecorators.m :
           pluginName \in Range(routePropsDecorators.m[key])
    \/ \E name \in DOMAIN reducersDecorators :
           pluginName \in Range(reducersDecorators[name])
    \/ pluginName \in Range(extendConstants.sockets)
    \/ \E key \in DOMAIN pluginDecorators : pluginName \in Range(pluginDecorators[key])

\* C2: a plugin dropped by loadPlugins() for a missing dependency has none
\* of its functions in any registry after the load.
C2_DroppedContributesNothing ==
    ret.op = "loadPlugins" => \A pluginName \in Dropped : ~Registered(pluginName)

\* the mappers of the recomputation that returned, in call order
MappersCalled == connectors.m[ret.name][ret.which]

\* the i-th mapper of the recomputation threw
MapperThrew(i) ==
    Call(Mapper(MappersCalled[i], ret.name, ret.which), ret.first, ret.out.accs[i]) = Thrown

\* C3: in a state derivation, a state mapper that throws does not make the
\* derivation throw, and the accumulator passed on after it is the
\* accumulator it was called with, at every position of the mapper sequence.
C3_ThrowingMapperKeepsAccumulator ==
    (ret.op = "connect" /\ ret.which = "state" /\ ~ret.out.threw) =>
        /\ Len(ret.out.accs) = Len(MappersCalled) + 1
        /\ \A i \in 1..Len(MappersCalled) :
               MapperThrew(i) => ret.out.accs[i + 1] = ret.out.accs[i]

\* a state derivation of three mappers whose second threw on an object
C3_Witness ==
    /\ ret.op = "connect" /\ ret.which = "state" /\ ~ret.out.threw
    /\ Len(MappersCalled) = 3
    /\ MapperThrew(2)
    /\ IsObject(ret.out.accs[2])
    /\ ret.out.accs[3] = ret.out.accs[2]
    /\ ret.out.accs[4] # ret.out.accs[3]

\* the fold of the mappers from the i-th on in which a mapper that throws
\* or returns a non-object is left out
RECURSIVE FoldWithoutFailing(_, _, _, _, _, _)
FoldWithoutFailing(fns, name, which, first, acc, i) ==
    IF i > Len(fns) THEN acc
    ELSE LET out == Call(Mapper(fns[i], name, which), first, acc)
         IN FoldWithoutFailing(fns, name, which, first,
                               IF IsObject(out) THEN out ELSE acc, i + 1)

\* C4: the derived state or dispatch props equal the fold of the mapper
\* sequence with every mapper that throws or returns a non-object removed.
C4_FailingMapperAloneAbsent ==
    (ret.op = "connect" /\ ~ret.out.threw) =>
        ret.out.accs[Len(ret.out.accs)] =
            FoldWithoutFailing(MappersCalled, ret.name, ret.which, ret.first,
                               ret.initial, 1)

Max(set) == CHOOSE x \in set : \A y \in set : y <= x

\* the listeners after the transforms of the packages in seq, in order:
\* what was appended since the last reset, after the default entry if
\* nothing reset
ListenersAfter(seq) ==
    LET kind(i) == Modules[seq[i]].addSocketsConstants.kind
        resets == { i \in 1..Len(seq) : kind(i) = "reset" }
        last == IF resets = {} THEN 0 ELSE Max(resets)
    IN (IF last = 0 THEN <<DefaultListener>> ELSE <<>>) \o
       [ i \in 1..(Len(seq) - last) |->
           [ event |-> Modules[seq[last + i]].addSocketsConstants.event,
             actionType |-> Modules[seq[last + i]].addSocketsConstants.actionType ] ]

\* the loaded plugins that export addSocketsConstants, in load order
LoadedTransforms ==
    SelectSeq(plugins.v, LAMBDA pl : Modules[pl].addSocketsConstants.kind # "none")

\* C5: after loadPlugins(), getConstants("sockets") is the fold, in load
\* order, of the loaded plugins' addSocketsConstants transforms over the
\* base sockets namespace.
C5_ConstantsFoldLoadedPlugins ==
    (ret.op = "getConstants" /\ ret.name = "sockets" /\ loaded = "done") =>
        /\ ~ret.out.threw
        /\ ret.out.value =
             [constants.sockets EXCEPT !.listeners = ListenersAfter(LoadedTransforms)]

\* the configured plugins whose reducer decorator for `name` writes `key`
\* on `action`, by position in the configuration
ReducerWriters(name, key, action) ==
    { i \in 1..Len(localPlugins) :
        LET d == ReducerDecorator(localPlugins[i], name)
        IN d.kind # "none" /\ d.key = key /\ d.on \in {"ANY", action.type} }

ReducerKeys == {"k", "n", "tip"}

\* key by key: the value of the last decorator, in load order, that writes
\* the key, and baseReducer's value for a key none writes
LastWriterWins(name, base, action) ==
    [ key \in DOMAIN base \cup
              { k \in ReducerKeys : ReducerWriters(name, k, action) # {} } |->
        IF ReducerWriters(name, key, action) = {}
          THEN base[key]
          ELSE ReducerDecorator(
                 localPlugins[Max(ReducerWriters(name, key, action))], name).val ]

\* C6: the reducer from decorateReducer(baseReducer, name), name chainReducer
\* or nodeReducer, returns baseReducer(state, action) with the registered
\* decorators applied in plugin load order: baseReducer's result when there
\* is none, and for a key decorators write the last writer's value.
C6_ReducerDecoratorsInLoadOrder ==
    (ret.op = "decorateReducer" /\ ret.name \in {"chainReducer", "nodeReducer"}
       /\ loaded = "done") =>
        /\ ~ret.out.threw
        /\ ret.out.value =
             Immutable(LastWriterWins(ret.name,
                                      Reduce(ret.reducer, ret.state, ret.action),
                                      ret.action))

\* two chain decorators wrote k, which baseReducer had set as well
C6_Witness ==
    /\ ret.op = "decorateReducer" /\ ret.name = "chainReducer" /\ loaded = "done"
    /\ ret.reducer = "tip" /\ ret.action.type = "SET_CHAIN_TIP"
    /\ Cardinality(ReducerWriters("chainReducer", "k", ret.action)) = 2
    /\ Len(reducersDecorators.chainReducer) = 3
    /\ ret.out.value.m.k = 2

\* the package exports a props decorator for `name` (getPanelProps or a route)
HasPropsDecorator(pluginName, name) ==
    IF name = "getPanelProps"
      THEN Modules[pluginName].getPanelProps.kind # "none"
      ELSE \E i \in 1..Len(Modules[pluginName].getRouteProps) :
               Modules[pluginName].getRouteProps[i][1] = name

\* the configured plugins before position i whose decorator for `name`
\* contributes `key`
PropsWriters(name, key, i) ==
    { j \in 1..(i - 1) :
        /\ HasPropsDecorator(localPlugins[j], name)
        /\ PropsDecorator(localPlugins[j], name).kind \in {"add", "read", "parent"}
        /\ PropsDecorator(localPlugins[j], name).key = key }

\* props[key] || 0 in the accumulator handed to the decorator of the i-th
\* configured plugin: the contribution of the last earlier decorator that
\* writes key, which itself read the accumulator handed to it
RECURSIVE PropBefore(_, _, _, _, _)
PropBefore(name, key, i, parentProps, initial) ==
    IF PropsWriters(name, key, i) = {} THEN Read(initial, key)
    ELSE LET j == Max(PropsWriters(name, key, i))
             fn == PropsDecorator(localPlugins[j], name)
         IN CASE fn.kind = "add" -> fn.val
              [] fn.kind = "read" ->
                   PropBefore(name, fn.src, j, parentProps, initial) + fn.val
              [] OTHER -> Read(parentProps, fn.src)

PropsKeys == {"foo", "bar", "baz", "p"}

\* the merge of all contributions over a copy of props
MergedProps(name, parentProps, props) ==
    LET initial == IF IsObject(props) THEN props.m ELSE EmptyMap
        n == Len(localPlugins) + 1
    IN [ key \in DOMAIN initial \cup
                 { k \in PropsKeys : PropsWriters(name, k, n) # {} } |->
           PropBefore(name, key, n, parentProps, initial) ]

\* C7: getPanelProps(parentProps, props) applies the registered decorators
\* in plugin load order, each on parentProps and the accumulator holding the
\* earlier contributions, and returns all contributions merged over a copy
\* of props.
C7_PanelPropsInLoadOrder ==
    (ret.op = "getPanelProps" /\ loaded = "done") =>
        /\ ~ret.out.threw
        /\ ret.out.value = MergedProps("getPanelProps", ret.parentProps, ret.props)

\* A adds foo, B after it adds bar from the foo it reads in the accumulator
C7_Witness ==
    /\ ret.op = "getPanelProps" /\ loaded = "done"
    /\ propsDecorators.getPanelProps = <<"base", "anon", "child">>
    /\ ret.props = Obj([foo |-> 5])
    /\ ret.out.value = [foo |-> 1, bar |-> 3]

\* a loaded plugin's getRouteProps has the key `name`, not an internal one
DeclaredByLoaded(name) ==
    /\ ~IsInternal(name)
    /\ \E pl \in Range(plugins.v) : HasPropsDecorator(pl, name)

\* C8: after loadPlugins(), getRouteProps(routeName, parentProps, props)
\* returns parentProps exactly when no loaded plugin's getRouteProps has the
\* key routeName (underscore keys apart), and otherwise the fold of the
\* registered decorators over a copy of props.
C8_RoutePropsOfLoadedPlugins ==
    (ret.op = "getRouteProps" /\ loaded = "done") =>
        /\ ~ret.out.threw
        /\ ret.out.value =
             IF DeclaredByLoaded(ret.name)
               THEN MergedProps(ret.name, ret.parentProps, ret.props)
               ELSE ret.parentProps

\* C9: initialMetadata() returns a mapping that holds, under its package
\* name, the name and pluginVersion of every plugin with readable metadata
\* that any load so far processed.
C9_MetadataAccumulates ==
    ret.op = "initialMetadata" =>
        \A pluginName \in everProcessed :
            Modules[pluginName].meta.kind = "ok" =>
                /\ pluginName \in DOMAIN ret.value
                /\ ret.value[pluginName].name = Modules[pluginName].meta.name
                /\ ret.value[pluginName].pluginVersion =
                       Modules[pluginName].meta.pluginVersion

\* the mapping holds a plugin that the last load did not configure
C9_Witness ==
    /\ ret.op = "initialMetadata"
    /\ loaded = "done"
    /\ \E pluginName \in DOMAIN ret.value : pluginName \notin Range(localPlugins)
    /\ \E pluginName \in DOMAIN ret.value : pluginName \in Range(localPlugins)

\* the middleware of the package calls its next
CallsNext(pluginName) == Modules[pluginName].middleware \in {"pass", "rewrite"}

\* what the middleware of the package hands to its next
HandsOn(pluginName, action) ==
    IF Modules[pluginName].middleware = "rewrite" THEN Rewrite(action) ELSE action

\* C10: a dispatch enters the plugin middlewares in plugin load order from
\* the first-loaded one, the next one only when the one before calls its
\* next, and the underlying next only when the last one does; with no
\* middleware the action goes to the underlying next once.
C10_MiddlewareChain ==
    (ret.op = "pluginMiddleware" /\ loaded = "done") =>
        LET calls == ret.out.calls
            n == Len(middlewares.v)
        IN /\ ~ret.out.threw
           /\ InConfigOrder(middlewares.v,
                { pl \in Range(localPlugins) : Modules[pl].middleware # "none" })
           /\ Len(calls) \in 1..(n + 1)
           /\ calls[1].action = ret.action
           /\ \A i \in 1..Len(calls) :
                  calls[i].fn = IF i <= n THEN middlewares.v[i] ELSE "next"
           /\ \A i \in 1..n :
                  /\ (i + 1 <= Len(calls)) <=>
                        (i <= Len(calls) /\ CallsNext(middlewares.v[i]))
                  /\ (i + 1 <= Len(calls)) =>
                        calls[i + 1].action = HandsOn(middlewares.v[i], calls[i].action)
           /\ n = 0 => calls = << [fn |-> "next", action |-> ret.action] >>

\* three middlewares entered in turn, then the underlying next
C10_Witness ==
    /\ ret.op = "pluginMiddleware" /\ loaded = "done"
    /\ Len(middlewares.v) = 3
    /\ Len(ret.out.calls) = 4
    /\ ret.out.calls[4].fn = "next"
    /\ ret.out.calls[4].action # ret.action

\* the i-th configured plugin pushed a decorator for `key`: key is one of its
\* decoratePlugin keys, not an internal one, and no key before it lacked its
\* metadata entry
PushesDecorator(i, key) ==
    LET keys == Modules[localPlugins[i]].decoratePlugin IN
    \E k \in 1..Len(keys) :
        /\ keys[k] = key
        /\ ~IsInternal(key)
        /\ \A j \in 1..k : IsInternal(keys[j]) \/ keys[j] \in MetadataWhenProcessed(i)

\* the configured plugins that export the capability
Exporting(Has(_)) == { pl \in Range(localPlugins) : Has(pl) }

\* C11: after each loadPlugins() call the connectors, extendConstants, panel
\* and route props decorators, reducer decorators, middleware list and
\* pluginDecorators hold exactly the contributions of the plugins processed
\* in that call, once each and in configuration order, nothing carried over
\* from earlier calls.
C11_RegistriesFreshEachLoad ==
    ret.op = "loadPlugins" =>
        /\ InConfigOrder(middlewares.v,
               Exporting(LAMBDA pl : Modules[pl].middleware # "none"))
        /\ \A name \in {"App", "Panel"}, which \in {"state", "dispatch"} :
               InConfigOrder(connectors.m[name][which],
                   Exporting(LAMBDA pl : Mapper(pl, name, which).kind # "none"))
        /\ InConfigOrder(extendConstants.sockets,
               Exporting(LAMBDA pl : Modules[pl].addSocketsConstants.kind # "none"))
        /\ InConfigOrder(propsDecorators.getPanelProps,
               Exporting(LAMBDA pl : HasPropsDecorator(pl, "getPanelProps")))
        /\ \A key \in DOMAIN routePropsDecorators.m :
               InConfigOrder(routePropsDecorators.m[key],
                   Exporting(LAMBDA pl : HasPropsDecorator(pl, key)))
        /\ \A name \in {"chainReducer", "nodeReducer"} :
               InConfigOrder(reducersDecorators[name],
                   Exporting(LAMBDA pl : ReducerDecorator(pl, name).kind # "none"))
        /\ \A key \in DOMAIN pluginDecorators :
               InConfigOrder(pluginDecorators[key],
                   { localPlugins[i] : i \in { i \in 1..Len(localPlugins) :
                                                  PushesDecorator(i, key) } })

\* the packages with a metadata entry when the dependency check of the i-th
\* configured plugin runs: the plugins with readable metadata that an earlier
\* load processed or that this load processed up to the i-th
RecordedWhenChecked(i) ==
    { pl \in ret.processedBefore : Modules[pl].meta.kind = "ok" } \cup
      { localPlugins[j] : j \in { j \in 1..i : Modules[localPlugins[j]].meta.kind = "ok" } }

\* the decoratePlugin target keys of the i-th configured plugin, internal
\* keys apart
Targets(i) == { key \in Range(Modules[localPlugins[i]].decoratePlugin) : ~IsInternal(key) }

\* C18: a load drops a plugin if and only if one of its non-underscore
\* decoratePlugin target keys has no metadata entry recorded in this load so
\* far or in any earlier load; a second load of the same configuration keeps
\* every plugin whose targets are configured plugins with metadata, also
\* one listed before its target.
C18_DependencyCheckSeesEarlierLoads ==
    ret.op = "loadPlugins" =>
        /\ \A i \in 1..Len(localPlugins) :
               (localPlugins[i] \in Dropped) <=> (Targets(i) \ RecordedWhenChecked(i) # {})
        /\ (ret.loadedBefore = "done" /\ ret.configBefore = localPlugins) =>
               \A i \in 1..Len(localPlugins) :
                   (\A key \in Targets(i) :
                        key \in Range(localPlugins) /\ Modules[key].meta.kind = "ok")
                     => localPlugins[i] \notin Dropped

\* the second load of a configuration that lists a plugin before its
\* target: the first load dropped the plugin, this one kept it
C18_Witness ==
    /\ ret.op = "loadPlugins"
    /\ ret.configBefore = localPlugins
    /\ ret.loadedBefore = "done"
    /\ \E i \in 1..Len(localPlugins) :
           /\ Targets(i) # {}
           /\ \A key \in Targets(i) :
                  /\ key \notin ret.processedBefore \ Range(localPlugins)
                  /\ \E j \in (i + 1)..Len(localPlugins) : localPlugins[j] = key
           /\ localPlugins[i] \in Range(plugins.v)

\* the calls that look a registry up under a name every load creates
LooksUpKnownName ==
    \/ ret.op = "getConstants" /\ ret.name = "sockets"
    \/ ret.op = "decorateReducer" /\ ret.name \in {"chainReducer", "nodeReducer"}
    \/ ret.op = "getPanelProps"
    \/ ret.op = "pluginMiddleware"
    \/ ret.op = "connect" /\ ret.name \in {"App", "Panel"}
    \/ ret.op = "getRouteProps"

\* C20: before the first loadPlugins() call getConstants("sockets"), a
\* decorated chainReducer or nodeReducer, getPanelProps, a pluginMiddleware
\* dispatch, the state and dispatch derivation of App and Panel and
\* getRouteProps fail with a lookup error; after a loadPlugins() call none
\* of them does.
C20_LookupErrorsOnlyBeforeFirstLoad ==
    LooksUpKnownName => (ret.out.threw <=> loaded = "never")

\* a decorated chainReducer called before any load
C20_Witness ==
    /\ loaded = "never"
    /\ ret.op = "decorateReducer" /\ ret.name = "chainReducer"
    /\ ret.out.threw

\* the i-th render() call of the render that returned ran with hasError set
\* and took the host class, getDecorated not called
RawWhileDisabled(k) ==
    ret.renders[k].hasError =>
        /\ ret.renders[k].Sub = Class(ret.boundary.Component_)
        /\ ~ret.renders[k].got

\* every instance but the one a step unmounts is still there after the step
Survives(i) == IF ret'.op = "unmount" /\ ret'.instance <= i THEN i - 1 ELSE i

\* C12: an instance of the class decorate(Component, name) returns starts
\* with decoration enabled, a render-time failure of the decorated chain
\* disables it, no step enables it again, and every render() while
\* disabled takes the raw Component without calling getDecorated.
C12_BoundaryIsOneWay ==
    /\ [](ret.op = "mount" => ~mounted[ret.instance].hasError)
    /\ [](ret.op = "render" =>
            /\ \A k \in 1..Len(ret.renders) : RawWhileDisabled(k)
            /\ ret.boundary.hasError => (ret.calls = <<>> /\ decorated = ret.cachedBefore)
            /\ ret.caught => mounted[ret.instance].hasError
            /\ (~ret.threw /\ Crashes(ret.renders[1].Sub)) => ret.caught)
    /\ [][\A i \in 1..Len(mounted) :
             (ret'.op = "unmount" /\ ret'.instance = i) \/
               /\ Survives(i) \in 1..Len(mounted')
               /\ mounted[i].hasError => mounted'[Survives(i)].hasError
               /\ (~mounted[i].hasError /\ mounted'[Survives(i)].hasError) =>
                      (ret'.op = "render" /\ ret'.instance = i /\ ret'.caught)]_vars

\* a render of an instance disabled earlier, at a mount point whose cached
\* chain fails when rendered
C12_Witness ==
    /\ ret.op = "render"
    /\ ret.boundary.hasError
    /\ ret.boundary.name \in DOMAIN decorated
    /\ Crashes(decorated[ret.boundary.name])
    /\ ret.renders = << [hasError |-> TRUE, got |-> FALSE,
                         Sub |-> Class(ret.boundary.Component_)] >>

\* C13: the decorated cache is written at most once per mount-point name:
\* an entry never changes or disappears, whatever is loaded afterwards; the
\* first getDecorated(Component, name) that returns writes what it returns,
\* and every later call for the name returns that entry without calling a
\* plugin function, whatever Component it is given.
C13_CacheWrittenOnce ==
    /\ [](( ret.op = "render" /\ ret.renders[1].got /\ ~ret.threw ) =>
            LET name == ret.boundary.name IN
            /\ name \in DOMAIN decorated
            /\ decorated[name] = ret.renders[1].Sub
            /\ name \in DOMAIN ret.cachedBefore =>
                   /\ ret.renders[1].Sub = ret.cachedBefore[name]
                   /\ ret.calls = <<>>
            /\ \A other \in DOMAIN ret.cachedBefore :
                   other \in DOMAIN decorated /\ decorated[other] = ret.cachedBefore[other])
    /\ [][\A name \in DOMAIN decorated :
             name \in DOMAIN decorated' /\ decorated'[name] = decorated[name]]_vars

\* a cached component returned for another Component than it wraps, while
\* the plugins now loaded would build another chain
C13_Witness ==
    /\ ret.op = "render" /\ ret.renders[1].got /\ ~ret.threw
    /\ ret.boundary.name \in DOMAIN ret.cachedBefore
    /\ ret.renders[1].Sub.of # ret.boundary.Component_
    /\ Len(ret.renders[1].Sub.wrappers) = 3
    /\ BuildDecorated(ret.boundary.Component_, ret.boundary.name).value.wrappers
         # ret.renders[1].Sub.wrappers

\* C17: once a render of the decorated chain failed at a mount-point name,
\* every later render at that name, by any instance, also one mounted
\* after the failure, takes the undecorated component.
C17_DisabledForMountPoint ==
    (ret.op = "render" /\ ret.boundary.name \in ret.crashedBefore) =>
        /\ ret.renders[1].Sub = Class(ret.boundary.Component_)
        /\ ~ret.renders[1].got

\* the render that returned built the chain of its mount point
BuiltChain ==
    /\ ret.op = "render"
    /\ ret.renders[1].got
    /\ ret.boundary.name \notin DOMAIN ret.cachedBefore
    /\ loaded # "never"

\* the package is a decoratePlugin target: decorators are registered for it
IsTarget(pkg) == pkg \in DOMAIN pluginDecorators

\* the decoration step of the package fails for the mount point
StepFails(pkg, name) ==
    \/ Modules[pkg].decorate[name] = "throw"
    \/ IsTarget(pkg) /\ Modules[pkg].decorator = "none"

\* the packages whose wrappers make up the component, innermost first
WrappedBy(component) == [i \in 1..Len(component.wrappers) |-> component.wrappers[i].by]

\* C15: when getDecorated builds the chain of a mount point and the step of
\* a plugin fails (its decorate<name> throws, or it is a decoratePlugin
\* target without decorator capability), getDecorated does not throw and
\* the cached component is the exposeDecorated wrapper inside the wrappers,
\* in load order, of all the other loaded plugins that have a decorate<name>.
C15_OnlyFailingStepSkipped ==
    BuiltChain =>
        LET name == ret.boundary.name IN
        /\ ~ret.threw
        /\ decorated[name] = ret.renders[1].Sub
        /\ WrappedBy(decorated[name]) =
             <<"exposeDecorated">> \o
               SelectSeq(plugins.v, LAMBDA pl : /\ Modules[pl].decorate[name] # "none"
                                                /\ ~StepFails(pl, name))

\* the decorators registered for the package by plugins of the loaded list
RegisteredByLoaded(pkg) ==
    IF IsTarget(pkg)
      THEN SelectSeq(pluginDecorators[pkg], LAMBDA d : d \in Range(plugins.v))
      ELSE <<>>

\* the positions in the calls of the build at which the package's
\* decorate<name>, or its decorator function, was called
CallsOf(fn, pkg) ==
    { q \in 1..Len(ret.calls) : ret.calls[q].fn = fn /\ ret.calls[q].plugin = pkg }

\* the decorators handed to the package's decorator function that loaded
\* plugins registered, in the order they were handed
HandedByLoaded(pkg) ==
    LET handed == SelectSeq(ret.calls,
                            LAMBDA c : c.fn = "decorator" /\ c.plugin = pkg
                                       /\ c.arg \in Range(plugins.v))
    IN [i \in 1..Len(handed) |-> handed[i].arg]

\* C16: when a loaded plugin T with a decorate<name> takes its turn in the
\* build of a chain, every decorator that a loaded plugin registered for T
\* through decoratePlugin is handed to T's decorator function, in
\* registration order and before T's decorate<name> is called; when T has
\* such decorators and no decorator function, T's decorate<name> is not
\* called and T wraps nothing.
C16_DecoratorsHandedToTarget ==
    BuiltChain =>
        \A T \in Range(plugins.v) :
            Modules[T].decorate[ret.boundary.name] # "none" =>
                IF Modules[T].decorator # "none"
                  THEN /\ HandedByLoaded(T) = RegisteredByLoaded(T)
                       /\ \A q \in CallsOf("decorator", T), d \in CallsOf("decorate", T) : q < d
                       /\ CallsOf("decorate", T) # {}
                  ELSE RegisteredByLoaded(T) # <<>> =>
                         /\ CallsOf("decorate", T) = {}
                         /\ T \notin Range(WrappedBy(decorated[ret.boundary.name]))

\* the i-th configured plugin has no readable metadata
Unreadable(i) == Modules[localPlugins[i]].meta.kind # "ok"

\* C14: loadPlugins() does not throw for a plugin whose metadata is missing
\* or malformed: no metadata entry is recorded for the plugin, its
\* capabilities are registered, it is in the loaded list, and every plugin
\* configured after it is processed.
C14_MetadataFailureContinues ==
    ret.op = "loadPlugins" =>
        /\ ~ret.threw
        /\ \A i \in 1..Len(localPlugins) :
               Unreadable(i) =>
                   /\ localPlugins[i] \notin DOMAIN metadata
                   /\ localPlugins[i] \in Range(plugins.v)
                   /\ localPlugins[i] \in Range(middlewares.v)
                   /\ localPlugins[i] \in Range(propsDecorators.getPanelProps)
                   /\ \A j \in (i + 1)..Len(localPlugins) :
                          localPlugins[j] \in Range(middlewares.v)

(***************************************************************************)
(* C19                                                                     *)
(***************************************************************************)
\* the registries a load of the most recent configuration fills
Latest == loadPlugins(ModuleState, localPlugins)

\* what the call recorded in ret returns when its registries are those of L
OutputOver(L) ==
    CASE ret.op = "getConstants" ->
           IF ret.name \notin DOMAIN L.extendConstants
             THEN [threw |-> TRUE, value |-> constants.sockets]
             ELSE [threw |-> FALSE,
                   value |-> ReduceConstants(L.extendConstants[ret.name],
                                             constants[ret.name], 1)]
      [] ret.op = "pluginMiddleware" ->
           IF L.middlewares = Undefined
             THEN [threw |-> TRUE, calls |-> <<>>]
             ELSE [threw |-> FALSE,
                   calls |-> nextMiddleware(L.middlewares.v, ret.action)]
      [] ret.op = "getPanelProps" ->
           IF "getPanelProps" \notin DOMAIN L.propsDecorators
             THEN [threw |-> TRUE, value |-> EmptyMap]
             ELSE [threw |-> FALSE,
                   value |-> ReduceProps(L.propsDecorators["getPanelProps"],
                                         "getPanelProps", ret.parentProps,
                                         IF IsObject(ret.props) THEN ret.props.m
                                                                ELSE EmptyMap, 1)]
      [] ret.op = "getRouteProps" ->
           IF L.routePropsDecorators = Undefined
             THEN [threw |-> TRUE, value |-> EmptyMap]
           ELSE IF ret.name \notin DOMAIN L.routePropsDecorators.m
             THEN [threw |-> FALSE, value |-> ret.parentProps]
           ELSE [threw |-> FALSE,
                 value |-> ReduceProps(L.routePropsDecorators.m[ret.name], ret.name,
                                       ret.parentProps,
                                       IF IsObject(ret.props) THEN ret.props.m
                                                              ELSE EmptyMap, 1)]
      [] ret.op = "decorateReducer" ->
           IF ret.name \notin DOMAIN L.reducersDecorators
             THEN [threw |-> TRUE, value |-> Immutable(EmptyMap)]
             ELSE [threw |-> FALSE,
                   value |-> ReduceReducers(L.reducersDecorators[ret.name], ret.name,
                               Immutable(Reduce(ret.reducer, ret.state, ret.action)),
                               ret.action, 1)]
      [] OTHER ->
           IF L.connectors = Undefined \/ ret.name \notin DOMAIN L.connectors.m
             THEN [threw |-> TRUE, accs |-> <<ret.initial>>]
             ELSE [threw |-> FALSE,
                   accs |-> ReduceMappers(L.connectors.m[ret.name][ret.which],
                                          ret.name, ret.which, ret.first,
                                          <<ret.initial>>, 1)]

\* the calls that read a registry
Lookups == {"getConstants", "pluginMiddleware", "getPanelProps", "getRouteProps",
            "decorateReducer", "connect"}

\* a function the host created returned, and a load has run
InvokedAfterLoad == pc = "returned" /\ ret.op \in Lookups /\ loaded = "done"

\* C19: a reducer returned by decorateReducer, the state and dispatch
\* functions of connect, getConstants, getPanelProps, getRouteProps and
\* pluginMiddleware, whenever they were created, return what the registries
\* of the most recent loadPlugins() call determine; loadPlugins() leaves the
\* decorated cache as it is, and a render of a mount point with a cache entry
\* gets that entry and calls no plugin, whatever is loaded by then.
C19_LookupAtInvocationTime ==
    /\ [](InvokedAfterLoad => ret.out = OutputOver(Latest))
    /\ [](pc = "returned" /\ ret.op = "render" /\ ret.renders[1].got
            /\ ret.boundary.name \in DOMAIN ret.cachedBefore
          => /\ ret.renders[1].Sub = ret.cachedBefore[ret.boundary.name]
             /\ ret.calls = <<>>
             /\ decorated = ret.cachedBefore)
    /\ [][ret'.op = "loadPlugins" => decorated' = decorated]_vars

\* a reducer created after a load that registered other decorators returns what
\* the decorators of the last load make of the state, not what those would have,
\* while the cache holds a component that a first render now would not build
C19_Witness ==
    /\ InvokedAfterLoad
    /\ ret.op = "decorateReducer"
    /\ ret.name \in DOMAIN built.reducersDecorators
    /\ built.reducersDecorators # reducersDecorators
    /\ ret.out # OutputOver(built)
    /\ \E name \in DOMAIN decorated :
          decorated[name] # BuildDecorated(decorated[name].of, name).value
====
